---- MODULE Spec2Model ----
(***************************************************************************)
(* Model of the two quantization scripts of TravelBuddy:                   *)
(*   scripts/quantize_model.py  (menu script, main)                        *)
(*   scripts/quick_quantize.py  (quick script, create_mobile_model)        *)
(* The state is the filesystem (source, quantized and assets directories)  *)
(* plus the position, locals, standard output and exit status of the       *)
(* script invocation that is running.                                      *)
(***************************************************************************)
EXTENDS Integers, Sequences, FiniteSets, TLC

VARIABLES
    source,            \* models/gemma3n                 (read only)
    quantized,         \* models/gemma3n_quantized
    assets,            \* assets/models/gemma3n
    script,            \* "none" | "menu" | "quick": the invocation running
    pc,                \* position inside the running script
    installed,         \* packages importable in this invocation
    missing_packages,  \* check_dependencies: list built so far
    choice,            \* main: the string read from standard input
    method_idx,        \* main: position of the "all methods" loop
    success_count,     \* main: success_count of the "all methods" loop
    original_config,   \* quick script: the parsed source config
    loc_idx,           \* quick script: position of the output_dirs loop
    stdout,            \* messages printed by this invocation
    exc,               \* exception raised in a top-level procedure, if any
    status,            \* exit status of the invocation (NoStatus: running)
    faults,            \* library / filesystem failures in this invocation
    runs,              \* invocations started so far
    prev               \* script of the previous invocation ("none" at first)

vars == <<source, quantized, assets, script, pc, installed, missing_packages,
          choice, method_idx, success_count, original_config, loc_idx,
          stdout, exc, status, faults, runs, prev>>

fsvars == <<source, quantized, assets>>

(***************************************************************************)
(* Bounds of the model.                                                    *)
(***************************************************************************)
\* script invocations in one behaviour
MaxRuns == 2
\* failing library / filesystem calls in one invocation
MaxFaults == 1

(***************************************************************************)
(* Program constants.                                                      *)
(***************************************************************************)
CustomHiddenCap == 1024
QuickHiddenCap == 1024
CustomHeadsCap == 8
CustomLayersCap == 12
CustomIntermediateCap == 4096
CustomMaxPosCap == 2048
QuickHeadsCap == 6
QuickLayersCap == 8
QuickIntermediateCap == 2048
QuickMaxPosCap == 2048
DefaultVocabSize == 256000
DefaultHiddenSize == 2048
DefaultHeads == 8
DefaultLayers == 18
DefaultIntermediate == 16384
DefaultMaxPos == 8192
QuickApproxSizeMb == 50

Min(a, b) == IF a <= b THEN a ELSE b

(***************************************************************************)
(* Filesystem.  A directory is a record: whether it exists, the names of   *)
(* its subdirectories and a function from relative paths (sequences of     *)
(* names) to file contents.  A file's content is the sequence of blocks    *)
(* written to it since it was last truncated.                              *)
(***************************************************************************)
EmptyFiles == [p \in {} |-> <<>>]
NoDir == [exists |-> FALSE, dirs |-> {}, files |-> EmptyFiles]
EmptyDir == [exists |-> TRUE, dirs |-> {}, files |-> EmptyFiles]

\* Path.mkdir(parents=True, exist_ok=True)
Mkdir(d) == IF d.exists THEN d ELSE EmptyDir

\* method_dir.mkdir(exist_ok=True) inside the existing directory d
MkSubdir(d, name) == [d EXCEPT !.dirs = @ \cup {name}]

\* open(path, 'a'): the block is appended to what the file already holds
WriteFileAppend(d, path, data) ==
    [d EXCEPT !.files = [q \in DOMAIN d.files \cup {path} |->
        IF q = path
        THEN (IF path \in DOMAIN d.files THEN d.files[path] ELSE <<>>) \o <<data>>
        ELSE d.files[q]]]

\* with open(path, 'w') as f: f.write(data)
WriteFile(d, path, data) ==
    [d EXCEPT !.files = [q \in DOMAIN d.files \cup {path} |->
        IF q = path THEN <<data>> ELSE d.files[q]]]

\* shutil.copy2(src_dir / name, dst_dir / path)
CopyFile(src, name, d, path) ==
    [d EXCEPT !.files = [q \in DOMAIN d.files \cup {path} |->
        IF q = path THEN src.files[<<name>>] ELSE d.files[q]]]

\* a library's save call: writes, below prefix, every file named in the
\* domain of the function data, with the content data[name]
WriteAll(d, prefix, data) ==
    LET written == {prefix \o <<n>> : n \in DOMAIN data}
    IN  [d EXCEPT !.files = [q \in DOMAIN d.files \cup written |->
            IF q \in written THEN <<data[q[Len(q)]]>> ELSE d.files[q]]]

FileExists(d, path) == d.exists /\ path \in DOMAIN d.files

(***************************************************************************)
(* File contents.                                                          *)
(***************************************************************************)
ConfigPath == <<"config.json">>

\* files_to_copy of the quick script
files_to_copy == {"tokenizer.json", "tokenizer_config.json",
                  "special_tokens_map.json", "generation_config.json"}

\* what a tokenizer or generation file of the source holds
TokenizerData(name) == [file |-> name, content |-> "tokenizer"]

\* a source config.json that is not valid JSON
Malformed == [malformed |-> TRUE]

ConfigKeys == {"model_type", "architectures", "vocab_size", "hidden_size",
               "num_attention_heads", "num_hidden_layers",
               "intermediate_size", "max_position_embeddings",
               "_name_or_path"}

\* json.load(f): the object, or an exception
JsonLoads(content) ==
    IF Len(content) = 1 /\ "malformed" \notin DOMAIN content[1]
    THEN [ok |-> TRUE, value |-> content[1]]
    ELSE [ok |-> FALSE, value |-> Malformed]

\* dict.get(key, default)
Get(dict, key, default) == IF key \in DOMAIN dict THEN dict[key] ELSE default

\* the empty dict the quick script falls back to
EmptyConfig == [k \in {} |-> 0]

\* mobile_config of create_custom_quantized_model with min replaced by max
MobileConfigCustomMax(config) ==
    [model_type |-> config.model_type,
     architectures |-> config.architectures,
     vocab_size |-> config.vocab_size,
     hidden_size |-> IF config.hidden_size >= CustomHiddenCap
                     THEN config.hidden_size ELSE CustomHiddenCap,
     num_attention_heads |-> Min(config.num_attention_heads, CustomHeadsCap),
     num_hidden_layers |-> Min(config.num_hidden_layers, CustomLayersCap),
     intermediate_size |-> Min(config.intermediate_size, CustomIntermediateCap),
     max_position_embeddings |->
         Min(config.max_position_embeddings, CustomMaxPosCap),
     torch_dtype |-> "float16",
     use_cache |-> TRUE,
     name_or_path |-> <<config["_name_or_path"], "-mobile">>,
     mobile_optimized |-> TRUE,
     quantization |-> "custom_mobile"]

\* mobile_config of create_custom_quantized_model
MobileConfigCustom(config) ==
    [model_type |-> config.model_type,
     architectures |-> config.architectures,
     vocab_size |-> config.vocab_size,
     hidden_size |-> Min(config.hidden_size, CustomHiddenCap),
     num_attention_heads |-> Min(config.num_attention_heads, CustomHeadsCap),
     num_hidden_layers |-> Min(config.num_hidden_layers, CustomLayersCap),
     intermediate_size |-> Min(config.intermediate_size, CustomIntermediateCap),
     max_position_embeddings |->
         Min(config.max_position_embeddings, CustomMaxPosCap),
     torch_dtype |-> "float16",
     use_cache |-> TRUE,
     name_or_path |-> <<config["_name_or_path"], "-mobile">>,
     mobile_optimized |-> TRUE,
     quantization |-> "custom_mobile"]

\* mobile_config of the quick script's create_mobile_model
MobileConfigQuick(config) ==
    [model_type |-> Get(config, "model_type", "gemma"),
     architectures |-> Get(config, "architectures", <<"GemmaForCausalLM">>),
     vocab_size |-> Get(config, "vocab_size", DefaultVocabSize),
     hidden_size |->
         Min(Get(config, "hidden_size", DefaultHiddenSize), QuickHiddenCap),
     num_attention_heads |->
         Min(Get(config, "num_attention_heads", DefaultHeads), QuickHeadsCap),
     num_hidden_layers |->
         Min(Get(config, "num_hidden_layers", DefaultLayers), QuickLayersCap),
     intermediate_size |->
         Min(Get(config, "intermediate_size", DefaultIntermediate),
             QuickIntermediateCap),
     max_position_embeddings |->
         Min(Get(config, "max_position_embeddings", DefaultMaxPos),
             QuickMaxPosCap),
     torch_dtype |-> "float16",
     transformers_version |-> "4.38.0",
     name_or_path |-> <<"google/gemma-3n-mobile">>,
     use_cache |-> TRUE,
     mobile_optimized |-> TRUE,
     quantization |-> "mobile_ready",
     approximate_size_mb |-> QuickApproxSizeMb]

\* model_info of the quick script, written in the location named
QuickModelInfo(location_name) ==
    [model_name |-> "Google Gemma 3n Mobile",
     variant |-> "mobile_optimized",
     quantization_method |-> "mobile_ready",
     approximate_size_mb |-> QuickApproxSizeMb,
     mobile_optimized |-> TRUE,
     status |-> "ready",
     location |-> location_name]

\* index of create_minimal_weights
QuickIndex ==
    [total_size |-> 52428800,
     weight_map |-> {"model.embed_tokens.weight",
                     "model.layers.0.self_attn.q_proj.weight",
                     "model.layers.0.self_attn.k_proj.weight",
                     "model.layers.0.self_attn.v_proj.weight",
                     "model.layers.0.self_attn.o_proj.weight",
                     "model.norm.weight", "lm_head.weight"}]

\* placeholder_data of create_minimal_weights
QuickPlaceholder ==
    [tag |-> "GEMMA3N_MOBILE_PLACEHOLDER_WEIGHTS", zeros |-> 1024 * 1024 - 34]

\* index of create_placeholder_weights
CustomIndex ==
    [total_size |-> 1024 * 1024,
     weight_map |-> {"model.embed_tokens.weight", "model.norm.weight",
                     "lm_head.weight"}]

\* placeholder_data of create_placeholder_weights
CustomPlaceholder ==
    [tag |-> "PLACEHOLDER_WEIGHTS_FOR_MOBILE_TESTING", zeros |-> 1024 - 38]

\* info of create_quantized_model_info (size_gb is the library's figure)
QuantizedModelInfo(method) ==
    [model_name |-> "Google Gemma 3n",
     variant |-> "quantized",
     quantization_method |-> method,
     size_gb |-> "get_model_size",
     mobile_optimized |-> TRUE,
     status |-> "ready"]

\* files written by model.save_pretrained(output_dir)
ModelSaved(method) ==
    [n \in {"config.json", "model.safetensors"} |->
        [file |-> n, content |-> "transformers", method |-> method]]

\* files written by tokenizer.save_pretrained(output_dir)
TokenizerSaved ==
    [n \in {"tokenizer.json", "tokenizer_config.json",
            "special_tokens_map.json"} |-> TokenizerData(n)]

\* files written by quantizer.quantize(save_dir=output_dir)
OnnxSaved(quantization_type) ==
    [n \in {"model_quantized.onnx", "ort_config.json"} |->
        [file |-> n, content |-> "onnxruntime", method |-> quantization_type]]

(***************************************************************************)
(* The procedures of the menu script.  Each takes the output directory     *)
(* tree out, the prefix sub of the directory it writes (<<>> for the       *)
(* quantized directory itself, <<name>> for a method directory) and the    *)
(* point where a library or filesystem call raises ("none": nowhere), and  *)
(* yields the tree it leaves and its return value.                         *)
(***************************************************************************)
FaultPoints == {"none", "load", "save"}
CopyFaultPoints == {"none", "rmtree", "copytree"}

\* from_pretrained(str(source_dir)) succeeds: the source holds a config
\* that parses and has every attribute the script reads
Loadable(src) ==
    /\ FileExists(src, ConfigPath)
    /\ JsonLoads(src.files[ConfigPath]).ok
    /\ ConfigKeys \subseteq DOMAIN JsonLoads(src.files[ConfigPath]).value

quantize_with_transformers(src, out, sub, method, fault) ==
    IF fault = "load" \/ ~Loadable(src)
    THEN [dir |-> out, ok |-> FALSE]
    ELSE LET saved == WriteAll(out, sub, ModelSaved(method))
         IN  IF fault = "save"
             THEN [dir |-> saved, ok |-> FALSE]
             ELSE [dir |-> WriteFile(WriteAll(saved, sub, TokenizerSaved),
                                     sub \o <<"model_info.json">>,
                                     QuantizedModelInfo(method)),
                   ok |-> TRUE]

quantize_to_onnx(src, out, sub, quantization_type, fault) ==
    IF fault = "load" \/ ~Loadable(src)
    THEN [dir |-> out, ok |-> FALSE]
    ELSE LET saved == WriteAll(out, sub, OnnxSaved(quantization_type))
         IN  IF fault = "save"
             THEN [dir |-> saved, ok |-> FALSE]
             ELSE [dir |-> WriteAll(saved, sub, TokenizerSaved), ok |-> TRUE]

create_placeholder_weights(out, sub) ==
    WriteFile(WriteFile(out, sub \o <<"model.safetensors.index.json">>,
                        CustomIndex),
              sub \o <<"model.safetensors">>, CustomPlaceholder)

create_custom_quantized_model(src, out, sub, fault) ==
    IF fault = "load" \/ ~Loadable(src)
    THEN [dir |-> out, ok |-> FALSE]
    ELSE LET config == JsonLoads(src.files[ConfigPath]).value
             saved == WriteFile(out, sub \o ConfigPath,
                                MobileConfigCustom(config))
         IN  IF fault = "save"
             THEN [dir |-> saved, ok |-> FALSE]
             ELSE [dir |-> create_placeholder_weights(
                               WriteAll(saved, sub, TokenizerSaved), sub),
                   ok |-> TRUE]

\* copy_to_assets without the removal of the existing assets tree: the
\* quantized tree is copied over what the assets directory holds
copy_to_assets_merge(q, a, fault) ==
    IF fault = "rmtree" /\ a.exists
    THEN [dir |-> a, ok |-> FALSE]
    ELSE IF fault = "copytree" \/ ~q.exists
         THEN [dir |-> NoDir, ok |-> FALSE]
         ELSE [dir |-> [exists |-> TRUE,
                        dirs |-> a.dirs \cup q.dirs,
                        files |-> [p \in DOMAIN a.files \cup DOMAIN q.files |->
                                     IF p \in DOMAIN q.files
                                     THEN q.files[p] ELSE a.files[p]]],
               ok |-> TRUE]

\* shutil.rmtree(assets_dir) if it exists, then
\* shutil.copytree(quantized_dir, assets_dir)
copy_to_assets(q, a, fault) ==
    IF fault = "rmtree" /\ a.exists
    THEN [dir |-> a, ok |-> FALSE]
    ELSE IF fault = "copytree" \/ ~q.exists
         THEN [dir |-> NoDir, ok |-> FALSE]
         ELSE [dir |-> q, ok |-> TRUE]

\* required_packages of check_dependencies, in dict order
required_packages ==
    <<"torch", "transformers", "optimum", "onnx", "onnxruntime">>

PackageSet == {required_packages[i] : i \in DOMAIN required_packages}

IsMissing(installedSet, package) == package \notin installedSet

\* the loop of check_dependencies stopped at the first missing package
MissingFirstOnly(installedSet) ==
    LET all == SelectSeq(required_packages,
                         LAMBDA p : IsMissing(installedSet, p))
    IN  IF all = <<>> THEN <<>> ELSE <<all[1]>>

\* missing_packages after the loop of check_dependencies
Missing(installedSet) ==
    SelectSeq(required_packages, LAMBDA p : IsMissing(installedSet, p))

\* methods of main, in dict order
methods ==
    <<[key |-> "1", param |-> "int8", func |-> "quantize_with_transformers"],
      [key |-> "2", param |-> "int4", func |-> "quantize_with_transformers"],
      [key |-> "3", param |-> "fp16", func |-> "quantize_with_transformers"],
      [key |-> "4", param |-> "onnx_int8", func |-> "quantize_to_onnx"],
      [key |-> "5", param |-> "custom_mobile",
       func |-> "create_custom_quantized_model"]>>

\* f"method_{method_name}_{param}"
MethodDirName(m) ==
    CASE m.key = "1" -> "method_1_int8"
      [] m.key = "2" -> "method_2_int4"
      [] m.key = "3" -> "method_3_fp16"
      [] m.key = "4" -> "method_4_onnx_int8"
      [] OTHER -> "method_5_custom_mobile"

\* choice if choice in methods else "1"
MethodOf(c) ==
    IF \E i \in DOMAIN methods : methods[i].key = c
    THEN methods[CHOOSE i \in DOMAIN methods : methods[i].key = c]
    ELSE methods[1]

\* the call main makes for method m: func(source, dir, param) for the
\* transformers methods, func(source, dir) for the others
CallMethod(m, src, out, sub, fault) ==
    IF m.param \in {"int8", "int4", "fp16"}
    THEN quantize_with_transformers(src, out, sub, m.param, fault)
    ELSE IF m.func = "quantize_to_onnx"
         THEN quantize_to_onnx(src, out, sub, "int8", fault)
         ELSE create_custom_quantized_model(src, out, sub, fault)

Out(m) == [msg |-> m]
Printed(m) == \E i \in DOMAIN stdout : stdout[i].msg = m

(***************************************************************************)
(* Invocations.  A script starts from the shell (script = "none"), runs    *)
(* its steps, exits with a status, and control returns to the shell.       *)
(***************************************************************************)
menuLocals == <<installed, missing_packages, choice, method_idx, success_count>>
quickLocals == <<original_config, loc_idx>>

\* python scripts/quantize_model.py, with the packages in inst importable
StartMenu(inst) ==
    /\ script = "none"
    /\ runs < MaxRuns
    /\ script' = "menu"
    /\ pc' = "check_dependencies"
    /\ installed' = inst
    /\ runs' = runs + 1
    /\ UNCHANGED <<fsvars, missing_packages, choice, method_idx, success_count,
                   quickLocals, stdout, exc, status, faults, prev>>

\* python scripts/quick_quantize.py
StartQuick ==
    /\ script = "none"
    /\ runs < MaxRuns
    /\ script' = "quick"
    /\ pc' = "create_dirs"
    /\ runs' = runs + 1
    /\ UNCHANGED <<fsvars, menuLocals, quickLocals, stdout, exc, status,
                   faults, prev>>

\* the process has exited; the shell is back
Return ==
    /\ pc = "exited"
    /\ script' = "none"
    /\ pc' = "idle"
    /\ prev' = script
    /\ installed' = {}
    /\ missing_packages' = <<>>
    /\ choice' = ""
    /\ method_idx' = 0
    /\ success_count' = 0
    /\ original_config' = EmptyConfig
    /\ loc_idx' = 0
    /\ stdout' = <<>>
    /\ exc' = {}
    /\ status' = 0
    /\ faults' = 0
    /\ UNCHANGED <<fsvars, runs>>

(***************************************************************************)
(* main of the menu script.                                                *)
(***************************************************************************)
\* if not check_dependencies(): sys.exit(1)
MainCheckDependencies ==
    /\ script = "menu" /\ pc = "check_dependencies"
    /\ missing_packages' = Missing(installed)
    /\ IF missing_packages' # <<>>
       THEN /\ stdout' = stdout \o
                  <<[msg |-> "Missing packages", packages |-> missing_packages']>>
            /\ status' = 1
            /\ pc' = "exited"
       ELSE /\ stdout' = stdout
            /\ status' = status
            /\ pc' = "setup_directories"
    /\ UNCHANGED <<fsvars, script, installed, choice, method_idx,
                   success_count, quickLocals, exc, faults, runs, prev>>

\* dirs = setup_directories()
MainSetupDirectories ==
    /\ script = "menu" /\ pc = "setup_directories"
    /\ quantized' = Mkdir(quantized)
    /\ assets' = Mkdir(assets)
    /\ pc' = "check_source"
    /\ UNCHANGED <<source, script, menuLocals, quickLocals, stdout, exc,
                   status, faults, runs, prev>>

\* main without the exit on a missing source directory
MainCheckSourceIgnored ==
    /\ script = "menu" /\ pc = "check_source"
    /\ stdout' = IF ~source.exists
                 THEN Append(stdout, Out("Source model not found"))
                 ELSE stdout
    /\ pc' = "input"
    /\ UNCHANGED <<fsvars, script, menuLocals, quickLocals, exc, status,
                   faults, runs, prev>>

\* if not dirs['source'].exists(): ... sys.exit(1)
MainCheckSource ==
    /\ script = "menu" /\ pc = "check_source"
    /\ IF ~source.exists
       THEN /\ stdout' = Append(stdout, Out("Source model not found"))
            /\ status' = 1
            /\ pc' = "exited"
       ELSE /\ stdout' = stdout
            /\ status' = status
            /\ pc' = "input"
    /\ UNCHANGED <<fsvars, script, menuLocals, quickLocals, exc, faults,
                   runs, prev>>

\* what standard input can hold: the six choices, an empty line, another key
Choices == {"1", "2", "3", "4", "5", "6", "", "7"}

\* choice = input(...).strip()
MainReadChoice(c) ==
    /\ script = "menu" /\ pc = "input"
    /\ choice' = c
    /\ stdout' = Append(stdout, Out("Choose method"))
    /\ pc' = IF c = "6" THEN "all_methods" ELSE "single_method"
    /\ method_idx' = IF c = "6" THEN 1 ELSE method_idx
    /\ UNCHANGED <<fsvars, script, installed, missing_packages, success_count,
                   quickLocals, exc, status, faults, runs, prev>>

FailureMessage(func) ==
    CASE func = "quantize_with_transformers" -> "Transformers quantization failed"
      [] func = "quantize_to_onnx" -> "ONNX quantization failed"
      [] func = "create_custom_quantized_model" -> "Custom model creation failed"
      [] func = "copy_to_assets" -> "Failed to copy to assets"
      [] OTHER -> "Traceback"

\* what a procedure that returned ok prints, and the exception it caught
ProcOut(func, ok) ==
    IF ok THEN <<>> ELSE <<Out(FailureMessage(func))>>
ProcExc(func, ok) ==
    IF ok THEN {} ELSE {[proc |-> func, caught |-> TRUE]}

\* one iteration of the loop over methods, with the loop left at the first
\* method that returns False
MainRunAllMethodStopOnFailure(fault) ==
    /\ script = "menu" /\ pc = "all_methods"
    /\ method_idx \in DOMAIN methods
    /\ fault # "none" => faults < MaxFaults
    /\ LET m == methods[method_idx]
           name == MethodDirName(m)
           r == CallMethod(m, source, MkSubdir(quantized, name), <<name>>, fault)
       IN  /\ quantized' = r.dir
           /\ stdout' = stdout \o <<[msg |-> "Running", param |-> m.param]>>
                               \o ProcOut(m.func, r.ok)
           /\ exc' = exc \cup ProcExc(m.func, r.ok)
           /\ success_count' = IF r.ok THEN success_count + 1 ELSE success_count
           /\ method_idx' = IF r.ok THEN method_idx + 1 ELSE Len(methods) + 1
    /\ faults' = IF fault # "none" THEN faults + 1 ELSE faults
    /\ UNCHANGED <<source, assets, script, pc, installed, missing_packages,
                   choice, quickLocals, status, runs, prev>>

\* one iteration of "for method_name, (param, func) in methods.items()"
MainRunAllMethod(fault) ==
    /\ script = "menu" /\ pc = "all_methods"
    /\ method_idx \in DOMAIN methods
    /\ fault # "none" => faults < MaxFaults
    /\ LET m == methods[method_idx]
           name == MethodDirName(m)
           r == CallMethod(m, source, MkSubdir(quantized, name), <<name>>, fault)
       IN  /\ quantized' = r.dir
           /\ stdout' = stdout \o <<[msg |-> "Running", param |-> m.param]>>
                               \o ProcOut(m.func, r.ok)
           /\ exc' = exc \cup ProcExc(m.func, r.ok)
           /\ success_count' = IF r.ok THEN success_count + 1 ELSE success_count
    /\ faults' = IF fault # "none" THEN faults + 1 ELSE faults
    /\ method_idx' = method_idx + 1
    /\ UNCHANGED <<source, assets, script, pc, installed, missing_packages,
                   choice, quickLocals, status, runs, prev>>

\* print(f"Completed {success_count}/{len(methods)} ..."), then main returns
MainRunAllDone ==
    /\ script = "menu" /\ pc = "all_methods"
    /\ method_idx = Len(methods) + 1
    /\ stdout' = stdout \o <<[msg |-> "Completed", count |-> success_count,
                              of |-> Len(methods)]>>
    /\ status' = 0
    /\ pc' = "exited"
    /\ UNCHANGED <<fsvars, script, menuLocals, quickLocals, exc, faults,
                   runs, prev>>

\* the single-method branch with the copy made whatever the method returned
MainRunSingleAlwaysCopy(fault) ==
    /\ script = "menu" /\ pc = "single_method"
    /\ fault # "none" => faults < MaxFaults
    /\ LET m == MethodOf(choice)
           r == CallMethod(m, source, quantized, <<>>, fault)
       IN  /\ quantized' = r.dir
           /\ stdout' = stdout \o <<[msg |-> "Selected", param |-> m.param]>>
                               \o ProcOut(m.func, r.ok)
           /\ exc' = exc \cup ProcExc(m.func, r.ok)
           /\ pc' = "copy_to_assets"
           /\ status' = status
    /\ faults' = IF fault # "none" THEN faults + 1 ELSE faults
    /\ UNCHANGED <<source, assets, script, menuLocals, quickLocals, runs, prev>>

\* the single-method branch up to "if success:"
MainRunSingle(fault) ==
    /\ script = "menu" /\ pc = "single_method"
    /\ fault # "none" => faults < MaxFaults
    /\ LET m == MethodOf(choice)
           r == CallMethod(m, source, quantized, <<>>, fault)
       IN  /\ quantized' = r.dir
           /\ exc' = exc \cup ProcExc(m.func, r.ok)
           /\ IF r.ok
              THEN /\ stdout' = stdout \o
                         <<[msg |-> "Selected", param |-> m.param]>>
                   /\ pc' = "copy_to_assets"
                   /\ status' = status
              ELSE /\ stdout' = stdout \o
                         <<[msg |-> "Selected", param |-> m.param]>>
                         \o ProcOut(m.func, r.ok)
                         \o <<Out("Quantization failed")>>
                   /\ pc' = "exited"
                   /\ status' = 1
    /\ faults' = IF fault # "none" THEN faults + 1 ELSE faults
    /\ UNCHANGED <<source, assets, script, menuLocals, quickLocals, runs, prev>>

\* copy_to_assets(dirs['quantized'], dirs['output']) and the two prints
\* that follow it; then main returns
MainCopyToAssets(fault) ==
    /\ script = "menu" /\ pc = "copy_to_assets"
    /\ fault # "none" => faults < MaxFaults
    /\ fault = "rmtree" => assets.exists
    /\ LET r == copy_to_assets(quantized, assets, fault)
       IN  /\ assets' = r.dir
           /\ stdout' = stdout \o <<Out("Copying quantized model to assets")>>
                               \o (IF r.ok THEN <<Out("Model copied")>>
                                   ELSE ProcOut("copy_to_assets", r.ok))
                               \o <<Out("Quantization completed successfully"),
                                    Out("Model ready for mobile deployment")>>
           /\ exc' = exc \cup ProcExc("copy_to_assets", r.ok)
    /\ faults' = IF fault # "none" THEN faults + 1 ELSE faults
    /\ status' = 0
    /\ pc' = "exited"
    /\ UNCHANGED <<source, quantized, script, menuLocals, quickLocals, runs, prev>>

(***************************************************************************)
(* create_mobile_model of the quick script.                                *)
(***************************************************************************)
\* output_dirs, in dict order
output_dirs == <<"models", "assets">>

\* for name, output_dir in output_dirs.items(): output_dir.mkdir(...)
QuickCreateDirs ==
    /\ script = "quick" /\ pc = "create_dirs"
    /\ quantized' = Mkdir(quantized)
    /\ assets' = Mkdir(assets)
    /\ stdout' = stdout \o <<[msg |-> "Created directory", name |-> "models"],
                             [msg |-> "Created directory", name |-> "assets"]>>
    /\ pc' = "read_config"
    /\ UNCHANGED <<source, script, menuLocals, quickLocals, exc, status,
                   faults, runs, prev>>

\* the read of source_dir / "config.json" with a missing file treated as a
\* failure that ends the run
QuickReadConfigStrict ==
    /\ script = "quick" /\ pc = "read_config"
    /\ IF FileExists(source, ConfigPath)
          /\ JsonLoads(source.files[ConfigPath]).ok
       THEN /\ original_config' = JsonLoads(source.files[ConfigPath]).value
            /\ stdout' = Append(stdout, Out("Loaded original config"))
            /\ exc' = exc
            /\ status' = status
            /\ pc' = "create_model"
            /\ loc_idx' = 1
       ELSE /\ original_config' = original_config
            /\ stdout' = Append(stdout, Out("Traceback"))
            /\ exc' = exc \cup {[proc |-> "create_mobile_model",
                                 caught |-> FALSE]}
            /\ status' = 1
            /\ pc' = "exited"
            /\ loc_idx' = loc_idx
    /\ UNCHANGED <<fsvars, script, menuLocals, faults, runs, prev>>

\* the read of source_dir / "config.json"; json.load is not guarded, so a
\* file that does not parse ends the process with a traceback
QuickReadConfig ==
    /\ script = "quick" /\ pc = "read_config"
    /\ IF FileExists(source, ConfigPath)
       THEN LET parsed == JsonLoads(source.files[ConfigPath])
            IN  IF parsed.ok
                THEN /\ original_config' = parsed.value
                     /\ stdout' = Append(stdout, Out("Loaded original config"))
                     /\ exc' = exc
                     /\ status' = status
                     /\ pc' = "create_model"
                     /\ loc_idx' = 1
                ELSE /\ original_config' = original_config
                     /\ stdout' = Append(stdout, Out("Traceback"))
                     /\ exc' = exc \cup {[proc |-> "create_mobile_model",
                                          caught |-> FALSE]}
                     /\ status' = 1
                     /\ pc' = "exited"
                     /\ loc_idx' = loc_idx
       ELSE /\ original_config' = EmptyConfig
            /\ stdout' = Append(stdout,
                                Out("Original config not found, using defaults"))
            /\ exc' = exc
            /\ status' = status
            /\ pc' = "create_model"
            /\ loc_idx' = 1
    /\ UNCHANGED <<fsvars, script, menuLocals, faults, runs, prev>>

\* create_minimal_weights(output_dir)
create_minimal_weights(out) ==
    WriteFile(WriteFile(out, <<"model.safetensors.index.json">>, QuickIndex),
              <<"model.safetensors">>, QuickPlaceholder)

RECURSIVE CopyExisting(_, _, _)
\* for filename in files_to_copy: copy2 if source_file.exists()
CopyExisting(src, names, out) ==
    IF names = {} THEN out
    ELSE LET n == CHOOSE x \in names : TRUE
             next == IF FileExists(src, <<n>>)
                     THEN CopyFile(src, n, out, <<n>>) ELSE out
         IN  CopyExisting(src, names \ {n}, next)

\* the body of "for location_name, output_dir in output_dirs.items()",
\* with the same model_info written in both locations
CreateInLocationSameInfo(src, config, out, location_name) ==
    WriteFile(
        create_minimal_weights(
            CopyExisting(src, files_to_copy,
                         WriteFile(out, ConfigPath, MobileConfigQuick(config)))),
        <<"model_info.json">>, QuickModelInfo("models"))

\* the body of "for location_name, output_dir in output_dirs.items()"
CreateInLocation(src, config, out, location_name) ==
    WriteFile(
        create_minimal_weights(
            CopyExisting(src, files_to_copy,
                         WriteFile(out, ConfigPath, MobileConfigQuick(config)))),
        <<"model_info.json">>, QuickModelInfo(location_name))

\* one iteration of the loop over output_dirs
QuickCreateInLocation ==
    /\ script = "quick" /\ pc = "create_model"
    /\ loc_idx \in DOMAIN output_dirs
    /\ LET location_name == output_dirs[loc_idx]
       IN  /\ IF location_name = "models"
              THEN /\ quantized' = CreateInLocation(source, original_config,
                                                    quantized, location_name)
                   /\ assets' = assets
              ELSE /\ assets' = CreateInLocation(source, original_config,
                                                 assets, location_name)
                   /\ quantized' = quantized
           /\ stdout' = stdout \o <<[msg |-> "Creating model in location",
                                     name |-> location_name]>>
    /\ loc_idx' = loc_idx + 1
    /\ UNCHANGED <<source, script, pc, menuLocals, original_config, exc,
                   status, faults, runs, prev>>

\* the closing prints and "return True"
QuickFinish ==
    /\ script = "quick" /\ pc = "create_model"
    /\ loc_idx = Len(output_dirs) + 1
    /\ stdout' = Append(stdout, Out("Mobile model created successfully"))
    /\ status' = 0
    /\ pc' = "exited"
    /\ UNCHANGED <<fsvars, script, menuLocals, quickLocals, exc, faults,
                   runs, prev>>

(***************************************************************************)
(* Initial states.                                                         *)
(***************************************************************************)
\* a source config.json with every key the scripts read
FullConfig(h, a, l, i, m) ==
    [k \in ConfigKeys |->
        CASE k = "model_type" -> "gemma3n"
          [] k = "architectures" -> <<"Gemma3nForConditionalGeneration">>
          [] k = "vocab_size" -> DefaultVocabSize + 6144
          [] k = "hidden_size" -> h
          [] k = "num_attention_heads" -> a
          [] k = "num_hidden_layers" -> l
          [] k = "intermediate_size" -> i
          [] k = "max_position_embeddings" -> m
          [] OTHER -> "google/gemma-3n"]

Restrict(f, keys) == [k \in keys |-> f[k]]

\* a source directory holding the config content given (<<>>: no
\* config.json) and the tokenizer files named
SourceDir(configContent, names) ==
    [exists |-> TRUE,
     dirs |-> {},
     files |-> [p \in {<<n>> : n \in names}
                      \cup (IF configContent = <<>> THEN {} ELSE {ConfigPath}) |->
                  IF p = ConfigPath THEN configContent
                  ELSE <<TokenizerData(p[1])>>]]

LargeConfig ==
    FullConfig(DefaultHiddenSize, 2 * DefaultHeads, DefaultLayers,
               DefaultIntermediate, DefaultMaxPos)

\* the source directories of the system specification
Sources ==
    {NoDir}
    \cup {SourceDir(c, n) :
            c \in {<<>>, <<Malformed>>, <<LargeConfig>>,
                   <<Restrict(LargeConfig, {"model_type", "hidden_size"})>>},
            n \in {{}, files_to_copy}}

\* output directories that hold a file no script writes
StaleQuantized == WriteFile(EmptyDir, <<"old_model.bin">>,
                            [file |-> "old_model.bin", content |-> "stale"])
StaleAssets == WriteFile(EmptyDir, <<"old_asset.bin">>,
                         [file |-> "old_asset.bin", content |-> "stale"])

\* the state of the shell before any invocation
Idle ==
    /\ script = "none"
    /\ pc = "idle"
    /\ installed = {}
    /\ missing_packages = <<>>
    /\ choice = ""
    /\ method_idx = 0
    /\ success_count = 0
    /\ original_config = EmptyConfig
    /\ loc_idx = 0
    /\ stdout = <<>>
    /\ exc = {}
    /\ status = 0
    /\ faults = 0
    /\ runs = 0
    /\ prev = "none"

Init ==
    /\ source \in Sources
    /\ \/ quantized = NoDir /\ assets = NoDir
       \/ quantized = StaleQuantized /\ assets = StaleAssets
    /\ Idle

Next ==
    \/ \E inst \in SUBSET PackageSet : StartMenu(inst)
    \/ StartQuick
    \/ Return
    \/ MainCheckDependencies
    \/ MainSetupDirectories
    \/ MainCheckSource
    \/ \E c \in Choices : MainReadChoice(c)
    \/ \E fault \in FaultPoints : MainRunAllMethod(fault)
    \/ MainRunAllDone
    \/ \E fault \in FaultPoints : MainRunSingle(fault)
    \/ \E fault \in CopyFaultPoints : MainCopyToAssets(fault)
    \/ QuickCreateDirs
    \/ QuickReadConfig
    \/ QuickCreateInLocation
    \/ QuickFinish

Spec == Init /\ [][Next]_vars

(***************************************************************************)
(* The mobile configs as functions of the source config: the same steps,   *)
(* started from source directories whose config.json ranges over values    *)
(* below, at and above every cap, with the menu choice fixed to the        *)
(* custom mobile model.                                                    *)
(***************************************************************************)
HiddenValues == {0, CustomHiddenCap - 1, CustomHiddenCap, CustomHiddenCap + 1}
HeadsValues == {QuickHeadsCap - 1, QuickHeadsCap, CustomHeadsCap,
                CustomHeadsCap + 1}
LayersValues == {QuickLayersCap - 1, QuickLayersCap, CustomLayersCap,
                 CustomLayersCap + 1}

InputConfigs ==
    {FullConfig(h, a, l, DefaultIntermediate, DefaultMaxPos) :
        h \in HiddenValues, a \in HeadsValues, l \in LayersValues}
    \cup {Restrict(LargeConfig, keys) :
            keys \in {{}, {"hidden_size"}, {"num_attention_heads", "vocab_size"},
                      ConfigKeys \ {"num_hidden_layers"}}}

ConfigInit ==
    /\ \/ source = SourceDir(<<>>, files_to_copy)
       \/ \E c \in InputConfigs : source = SourceDir(<<c>>, files_to_copy)
    /\ quantized = NoDir
    /\ assets = NoDir
    /\ Idle

ConfigNext ==
    \/ StartMenu(PackageSet)
    \/ StartQuick
    \/ Return
    \/ MainCheckDependencies
    \/ MainSetupDirectories
    \/ MainCheckSource
    \/ MainReadChoice("5")
    \/ \E fault \in FaultPoints : MainRunSingle(fault)
    \/ \E fault \in CopyFaultPoints : MainCopyToAssets(fault)
    \/ QuickCreateDirs
    \/ QuickReadConfig
    \/ QuickCreateInLocation
    \/ QuickFinish

SpecConfig == ConfigInit /\ [][ConfigNext]_vars

(***************************************************************************)
(* Properties.                                                             *)
(***************************************************************************)
\* the first block of every file of d that holds a mobile config
MobileConfigsIn(d, label) ==
    {d.files[p][1] : p \in {q \in DOMAIN d.files :
        /\ "quantization" \in DOMAIN d.files[q][1]
        /\ d.files[q][1].quantization = label}}

\* the value the source config.json holds for a key (0 when absent)
SourceValue(key) ==
    IF FileExists(source, ConfigPath)
       /\ JsonLoads(source.files[ConfigPath]).ok
    THEN Get(JsonLoads(source.files[ConfigPath]).value, key, 0)
    ELSE 0

\* C1: every mobile config written by create_custom_quantized_model has
\* hidden_size <= 1024, num_attention_heads <= 8 and num_hidden_layers <= 12,
\* and every one written by the quick script has hidden_size <= 1024,
\* num_attention_heads <= 6 and num_hidden_layers <= 8, whatever integers
\* (or absent keys, or absent file) the source config holds.
MobileCapsHold ==
    /\ \A d \in {quantized, assets} :
         \A c \in MobileConfigsIn(d, "custom_mobile") :
            /\ c.hidden_size <= 1024
            /\ c.num_attention_heads <= 8
            /\ c.num_hidden_layers <= 12
    /\ \A d \in {quantized, assets} :
         \A c \in MobileConfigsIn(d, "mobile_ready") :
            /\ c.hidden_size <= 1024
            /\ c.num_attention_heads <= 6
            /\ c.num_hidden_layers <= 8

\* a custom mobile config and a quick config are both on disk, made from a
\* source whose hidden size, heads and layers all exceed the caps
MobileCapsWitness ==
    /\ MobileConfigsIn(quantized, "custom_mobile") # {}
    /\ MobileConfigsIn(assets, "mobile_ready") # {}
    /\ SourceValue("hidden_size") > 1024
    /\ SourceValue("num_attention_heads") > 8
    /\ SourceValue("num_hidden_layers") > 12

\* C2: during a run of the quick script that directly follows another run of
\* the quick script, no step changes the quantized or the assets directory:
\* the files and contents after n >= 2 runs are those after one run.
QuickIdempotent ==
    [][(script = "quick" /\ prev = "quick")
         => (quantized' = quantized /\ assets' = assets)]_vars

\* a second consecutive quick run has completed, having rewritten the
\* files of both locations
QuickIdempotentWitness ==
    /\ script = "quick" /\ prev = "quick"
    /\ pc = "exited" /\ status = 0
    /\ FileExists(quantized, <<"model_info.json">>)
    /\ FileExists(assets, <<"model.safetensors">>)
    /\ FileExists(assets, <<"tokenizer.json">>)

\* C3: when copy_to_assets has returned True, the assets tree equals the
\* quantized tree: same directories, same paths, same contents.
CopyMakesAssetsEqual ==
    (script = "menu" /\ Printed("Model copied")) => assets = quantized

\* copy_to_assets returned True on an assets directory that held a file the
\* quantized directory does not have
CopyMakesAssetsEqualWitness ==
    /\ script = "menu" /\ Printed("Model copied")
    /\ FileExists(quantized, <<"old_model.bin">>)
    /\ FileExists(quantized, <<"model_info.json">>)

\* C4: in the menu script with every package present and no source
\* directory, no step reads the menu choice or runs a quantization
\* procedure, the only change to the filesystem is that the quantized and the
\* assets directory are created empty when absent, and the process exits
\* with status 1 after reporting the missing source.
MissingSourceStops ==
    [][(script = "menu" /\ PackageSet \subseteq installed /\ ~source.exists)
         => /\ pc' \notin {"input", "single_method", "all_methods",
                           "copy_to_assets"}
            /\ quantized' = quantized
               \/ (~quantized.exists /\ quantized' = EmptyDir)
            /\ assets' = assets \/ (~assets.exists /\ assets' = EmptyDir)
            /\ source' = source
            /\ pc' = "exited" =>
                 /\ status' = 1
                 /\ \E i \in DOMAIN stdout' :
                      stdout'[i].msg = "Source model not found"]_vars

\* main has exited with status 1 on a missing source directory, having
\* created the two empty directories
MissingSourceStopsWitness ==
    /\ script = "menu" /\ pc = "exited" /\ status = 1
    /\ ~source.exists
    /\ Printed("Source model not found")
    /\ quantized = EmptyDir /\ assets = EmptyDir

\* the files the quick script writes in each location
QuickWritten == {<<"config.json">>, <<"model.safetensors.index.json">>,
                 <<"model.safetensors">>, <<"model_info.json">>}

\* C5 as stated: with no source directory the quick script writes no file
\* and exits with a failure.
QuickMissingSourceWritesNothing ==
    [][(script = "quick" /\ ~source.exists)
         => /\ quantized'.files = quantized.files
            /\ assets'.files = assets.files
            /\ pc' = "exited" => status' = 1]_vars

\* C5 as amended: with no source directory the quick script falls back to
\* the default config and completes with status 0: both output directories
\* hold config.json (hidden_size 1024, 6 heads, 8 layers), the safetensors
\* index, the placeholder weights and model_info.json, and no tokenizer
\* file has been copied.
QuickMissingSourceUsesDefaults ==
    (script = "quick" /\ ~source.exists /\ pc = "exited")
      => /\ status = 0
         /\ Printed("Original config not found, using defaults")
         /\ Printed("Mobile model created successfully")
         /\ \A d \in {quantized, assets} :
              /\ d.exists
              /\ QuickWritten \subseteq DOMAIN d.files
              /\ \A n \in files_to_copy : <<n>> \notin DOMAIN d.files
              /\ Len(d.files[ConfigPath]) = 1
              /\ d.files[ConfigPath][1].quantization = "mobile_ready"
              /\ d.files[ConfigPath][1].hidden_size = 1024
              /\ d.files[ConfigPath][1].num_attention_heads = 6
              /\ d.files[ConfigPath][1].num_hidden_layers = 8
              /\ d.files[ConfigPath][1].model_type = "gemma"

\* the quick script has completed without a source directory
QuickMissingSourceWitness ==
    /\ script = "quick" /\ ~source.exists /\ pc = "exited" /\ status = 0
    /\ FileExists(quantized, <<"model.safetensors">>)
    /\ FileExists(assets, <<"model_info.json">>)

CopyAnnounced(out) ==
    \E i \in DOMAIN out : out[i].msg = "Copying quantized model to assets"

\* C6: in single-method mode, from setup_directories up to the call of the
\* selected procedure no step changes the assets directory, and when the
\* procedure returns False main exits with status 1 without calling
\* copy_to_assets and without touching the assets directory.
FailedMethodSkipsCopy ==
    [][(script = "menu")
         => /\ pc \in {"check_source", "input", "single_method"}
                 => assets' = assets
            /\ (pc = "single_method" /\ exc' # {})
                 => /\ pc' = "exited"
                    /\ status' = 1
                    /\ ~CopyAnnounced(stdout')]_vars

\* a single method has failed after writing part of its output and main
\* has exited with status 1
FailedMethodSkipsCopyWitness ==
    /\ script = "menu" /\ pc = "exited" /\ status = 1
    /\ choice # "6"
    /\ Printed("Quantization failed")
    /\ exc # {}
    /\ FileExists(quantized, <<"model.safetensors">>)
    /\ ~FileExists(assets, <<"model.safetensors">>)

\* C7 as stated: every exception raised inside a top-level procedure is
\* caught there and reported by that procedure's failure message.
AllFailuresCaught ==
    \A e \in exc : e.caught /\ Printed(FailureMessage(e.proc))

\* the paths the invocation that has just completed writes in the
\* quantized directory
WrittenByInvocation ==
    IF script = "quick"
    THEN QuickWritten \cup {<<n>> : n \in {m \in files_to_copy :
                                              FileExists(source, <<m>>)}}
    ELSE IF choice = "6"
         THEN {p \in DOMAIN quantized.files : Len(p) = 2}
         ELSE LET m == MethodOf(choice)
              IN  {<<n>> : n \in DOMAIN TokenizerSaved}
                  \cup (IF m.func = "quantize_with_transformers"
                        THEN {<<n>> : n \in DOMAIN ModelSaved(m.param)}
                             \cup {<<"model_info.json">>}
                        ELSE IF m.func = "quantize_to_onnx"
                             THEN {<<n>> : n \in DOMAIN OnnxSaved("int8")}
                             ELSE {ConfigPath,
                                   <<"model.safetensors.index.json">>,
                                   <<"model.safetensors">>})

\* C8 as stated: after an invocation that completed successfully, the
\* quantized directory holds only files that invocation wrote (the file
\* old_model.bin, which no script writes, is left out of the comparison).
QuantizedOverwrittenWholesale ==
    (pc = "exited" /\ status = 0)
      => DOMAIN quantized.files \ {<<"old_model.bin">>} \subseteq WrittenByInvocation

\* C9: in the menu script with a required package missing, no step creates
\* a directory, writes a file, reads the menu choice or runs a procedure;
\* the process exits with status 1, and the report printed names exactly
\* the missing packages, each once.
MissingDependencyStops ==
    [][(script = "menu" /\ ~(PackageSet \subseteq installed))
         => /\ pc' \in {"exited", "idle"}
            /\ UNCHANGED fsvars
            /\ pc' = "exited" =>
                 /\ status' = 1
                 /\ \E i \in DOMAIN stdout' :
                      /\ stdout'[i].msg = "Missing packages"
                      /\ {stdout'[i].packages[j] :
                            j \in DOMAIN stdout'[i].packages}
                         = PackageSet \ installed
                      /\ Len(stdout'[i].packages)
                         = Cardinality(PackageSet \ installed)]_vars

\* main has exited with status 1 after reporting two or more missing
\* packages, with no directory created
MissingDependencyStopsWitness ==
    /\ script = "menu" /\ pc = "exited" /\ status = 1
    /\ Len(missing_packages) >= 2
    /\ "torch" \in installed
    /\ ~quantized.exists /\ ~assets.exists

\* the first invocation, a quick run, has completed on output directories
\* that were empty or absent
QuickFirstRunDone ==
    /\ script = "quick" /\ pc = "exited" /\ status = 0
    /\ runs = 1
    /\ ~FileExists(quantized, <<"old_model.bin">>)

\* C10 as stated: after a quick run from empty output directories the
\* assets directory and the quantized directory hold the same files with
\* the same contents.
QuickLocationsIdentical ==
    QuickFirstRunDone => assets.files = quantized.files

\* C10 as amended: after a quick run from empty output directories the two
\* directories hold the same file names, and every same-named file has
\* equal contents except model_info.json, whose "location" is "models" in
\* the quantized directory and "assets" in the assets directory and which is
\* equal in every other field.
QuickLocationsDifferInInfoOnly ==
    QuickFirstRunDone
      => /\ DOMAIN assets.files = DOMAIN quantized.files
         /\ \A p \in DOMAIN quantized.files \ {<<"model_info.json">>} :
              assets.files[p] = quantized.files[p]
         /\ Len(quantized.files[<<"model_info.json">>]) = 1
         /\ Len(assets.files[<<"model_info.json">>]) = 1
         /\ quantized.files[<<"model_info.json">>][1].location = "models"
         /\ assets.files[<<"model_info.json">>][1].location = "assets"
         /\ [assets.files[<<"model_info.json">>][1] EXCEPT !.location = "models"]
            = quantized.files[<<"model_info.json">>][1]

\* a first quick run has completed and copied the tokenizer files to both
\* locations
QuickLocationsWitness ==
    /\ QuickFirstRunDone
    /\ FileExists(quantized, <<"tokenizer.json">>)
    /\ FileExists(assets, <<"generation_config.json">>)
    /\ FileExists(assets, <<"model_info.json">>)

\* the params announced by "Running {param} quantization...", in order
RunningParams(out) ==
    LET running == SelectSeq(out, LAMBDA e : e.msg = "Running")
    IN  [i \in DOMAIN running |-> running[i].param]

\* the number of procedure failure messages printed
FailuresPrinted(out) ==
    Cardinality({i \in DOMAIN out :
        out[i].msg \in {"Transformers quantization failed",
                        "ONNX quantization failed",
                        "Custom model creation failed"}})

\* C11: with choice 6, every step of the loop leaves the assets directory
\* alone and writes only below the directory of the method it runs
\* (method_1_int8, method_2_int4, method_3_fp16, method_4_onnx_int8,
\* method_5_custom_mobile, in this order); when main has exited, the five
\* methods were announced once each in menu order whatever each returned,
\* the five directories exist, the count reported is the number of methods
\* that returned True, copy_to_assets was not called and the status is 0.
AllMethodsRunOnce ==
    /\ [][(script = "menu" /\ pc = "all_methods")
            => /\ assets' = assets
               /\ \A p \in DOMAIN quantized'.files :
                    \/ /\ p \in DOMAIN quantized.files
                       /\ quantized'.files[p] = quantized.files[p]
                    \/ /\ Len(p) = 2
                       /\ method_idx \in 1..5
                       /\ p[1] = <<"method_1_int8", "method_2_int4",
                                   "method_3_fp16", "method_4_onnx_int8",
                                   "method_5_custom_mobile">>[method_idx]]_vars
    /\ [](  (script = "menu" /\ choice = "6" /\ pc = "exited")
         => /\ RunningParams(stdout)
               = <<"int8", "int4", "fp16", "onnx_int8", "custom_mobile">>
            /\ {"method_1_int8", "method_2_int4", "method_3_fp16",
                "method_4_onnx_int8", "method_5_custom_mobile"}
               \subseteq quantized.dirs
            /\ \E i \in DOMAIN stdout :
                 /\ stdout[i].msg = "Completed"
                 /\ stdout[i].count = 5 - FailuresPrinted(stdout)
                 /\ stdout[i].of = 5
            /\ ~CopyAnnounced(stdout)
            /\ status = 0)

\* all five methods have run with choice 6; the second one returned False
\* and the later ones still produced their output
AllMethodsRunOnceWitness ==
    /\ script = "menu" /\ choice = "6" /\ pc = "exited"
    /\ success_count = 4
    /\ Printed("Transformers quantization failed")
    /\ ~FileExists(quantized, <<"method_2_int4", "model_info.json">>)
    /\ FileExists(quantized, <<"method_3_fp16", "model_info.json">>)
    /\ FileExists(quantized, <<"method_5_custom_mobile", "config.json">>)

\* C12 as stated: main announces success and exits with status 0 in
\* single-method mode only if the procedure and copy_to_assets both
\* returned True.
SuccessOnlyAfterCopy ==
    (script = "menu" /\ choice # "6" /\ pc = "exited"
       /\ (status = 0 \/ Printed("Quantization completed successfully")))
      => (Printed("Model copied") /\ exc = {})

====
